---- MODULE Spec2Model ----
(***************************************************************************)
(* Billing engine of the restaurant back office (backend/billing/models.py *)
(* with the Branch records of backend/core/models.py):                     *)
(*   - invoice numbering and totals (Invoice.save),                        *)
(*   - payment settlement (Payment.mark_as_succeeded),                     *)
(*   - subscription pricing (Subscription.calculate_mrr / save),           *)
(* and the stage moves of the sales pipeline (DealViewSet.move_stage of    *)
(* backend/sales/views.py).                                                *)
(*                                                                         *)
(* The database runs in Django's default autocommit mode: the source opens *)
(* no transaction (no transaction.atomic, no select_for_update), so every  *)
(* query and every Model.save() is one atomic step of its own, and steps   *)
(* of different requests interleave freely.                                *)
(*                                                                         *)
(* Decimals are integers counted in Units of 10^-6: a DecimalField with    *)
(* decimal_places=2 holds multiples of Cent, a percentage is counted in    *)
(* hundredths of a percent, so that every product the code forms (a        *)
(* 2-decimal amount times a 4-decimal factor) is exact, as it is with      *)
(* Python's Decimal at its default 28 digits of precision.                 *)
(***************************************************************************)
EXTENDS Integers, Sequences, FiniteSets, TLC

VARIABLES
    now,         \* the clock read by timezone.now(), in ticks
    dbRounding,  \* how the database backend rounds a decimal to the column scale
    invoices,    \* table invoices: sequence of rows in order of insertion
    cpc,         \* per creating request: "idle" or "insert" (between query and INSERT)
    cobj,        \* per creating request: its in-memory Invoice object
    cresult,     \* per creating request: outcome of its last Invoice.save
    payments,    \* table payments: id -> row
    spc,         \* per Payment object: position inside mark_as_succeeded
    cached,      \* per Payment object: the in-memory self.invoice (FK cache)
    calls,       \* per Payment object: completed mark_as_succeeded calls
    plan,        \* the SubscriptionPlan row
    sub,         \* the Subscription row of the restaurant
    branches,    \* table branches of the restaurant: id -> row
    calc,        \* frame of the last calculate_mrr call made by Subscription.save
    saving,      \* per request inside Subscription.save: position, object, frame
    deal,        \* the Deal row addressed by DealViewSet.move_stage
    activities,  \* table deal_activities of that deal, oldest first
    moving,      \* per request inside move_stage: position, object, response
    customer,    \* the Customer row of the restaurant (core/models.py)
    leads,       \* table leads: id -> row
    reaching,    \* per request of LeadViewSet: position, lead, object, result
    reached,     \* number of requests of LeadViewSet that have loaded a lead
    history      \* numbers of the deleted invoices (their historical records)

vars == <<now, dbRounding, invoices, cpc, cobj, cresult, payments, spc, cached,
          calls, plan, sub, branches, calc, saving, deal, activities, moving,
          customer, leads, reaching, reached, history>>

invoiceVars == <<invoices, cpc, cobj, cresult>>
paymentVars == <<payments, spc, cached, calls>>
mrrVars     == <<plan, sub, branches, calc>>
dealVars    == <<deal, activities, moving>>
crmVars     == <<customer, leads, reaching, reached>>

----------------------------------------------------------------------------
(* Bounds of the model *)

MaxNow       == 2      \* the clock runs over ticks 0..MaxNow
TicksPerDay  == 2      \* instants told apart within one calendar date
DaysPerMonth == 1      \* calendar dates told apart within one month
StartYear    == 2025   \* the calendar month of tick 0 is StartYear/StartMonth
StartMonth   == 3
MaxInvoices  == 3      \* creations start while fewer rows than this exist
MaxCalls     == 2      \* mark_as_succeeded calls per Payment object
MaxBranches  == 3      \* Branch rows of the restaurant, ids 1..MaxBranches

Creators   == {"r1", "r2"}          \* concurrent invoice-creating requests
PaymentIds == {"p1", "p2"}
BranchIds  == 1..MaxBranches

----------------------------------------------------------------------------
(* Decimal arithmetic *)

Cent == 10000          \* Units in 0.01, the step of a decimal_places=2 column

Money(whole, cents) == (whole * 100 + cents) * Cent

\* amount * (pct / Decimal('100')), pct in hundredths of a percent; amount is
\* a 2-decimal value (a multiple of Cent), so the division is exact.
TimesPercent(amount, pct) == (amount \div Cent) * pct

\* A value written to a DecimalField(decimal_places=2) column is rounded to
\* two places by the backend; a tie is broken half-even or half-up
\* depending on the backend in use.
Quantize2(v, mode) ==
    LET a  == IF v < 0 THEN -v ELSE v
        q  == a \div Cent
        r  == a % Cent
        up == IF 2 * r > Cent THEN 1
              ELSE IF 2 * r < Cent THEN 0
              ELSE IF mode = "half_even" THEN q % 2 ELSE 1
        m  == (q + up) * Cent
    IN  IF v < 0 THEN -m ELSE m

RoundingModes == {"half_even", "half_up"}

----------------------------------------------------------------------------
(* Clock *)

NoDate == -1           \* NULL in a DateField / DateTimeField

Date(t)       == t \div TicksPerDay            \* timezone.now().date()
MonthIndex(t) == Date(t) \div DaysPerMonth
Year(t)       == StartYear + ((StartMonth - 1 + MonthIndex(t)) \div 12)
MonthOfYear(t) == ((StartMonth - 1 + MonthIndex(t)) % 12) + 1

Tick ==
    /\ now < MaxNow
    /\ now' = now + 1
    /\ UNCHANGED <<dbRounding, invoiceVars, paymentVars, mrrVars, saving, dealVars, crmVars, history>>

----------------------------------------------------------------------------
(* Invoice numbers: the text "INV-{year}{month:02d}-{seq:04d}" is kept as   *)
(* the pair of its prefix (the number year*100+month, i.e. the six digits  *)
(* YYYYMM) and the digit string printed after the last dash.               *)

PadWidth == 4

RECURSIVE Digits(_)
Digits(n) == IF n < 10 THEN <<n>> ELSE Append(Digits(n \div 10), n % 10)

RECURSIVE ZeroPad(_, _)
ZeroPad(ds, w) == IF Len(ds) >= w THEN ds ELSE ZeroPad(<<0>> \o ds, w)

\* f"{new_num:04d}"
FormatSeq(n) == ZeroPad(Digits(n), PadWidth)

\* int(text)
RECURSIVE ParseInt(_)
ParseInt(ds) ==
    IF ds = <<>> THEN 0
    ELSE ParseInt(SubSeq(ds, 1, Len(ds) - 1)) * 10 + ds[Len(ds)]

\* order of two digit strings as text (the order of ORDER BY on a CharField)
RECURSIVE TextLess(_, _)
TextLess(a, b) ==
    IF a = <<>> THEN b # <<>>
    ELSE IF b = <<>> THEN FALSE
    ELSE IF a[1] # b[1] THEN a[1] < b[1]
    ELSE TextLess(Tail(a), Tail(b))

EmptyNumber == [prefix |-> 0, seq |-> <<>>]     \* invoice_number = ''

\* the month printed without its leading zero
PrefixUnpadded(t) == Year(t) * 10 + MonthOfYear(t)

\* f"INV-{now.year}{now.month:02d}"
Prefix(t) == Year(t) * 100 + MonthOfYear(t)

----------------------------------------------------------------------------
(* Invoice *)

InvoiceStatus == {"draft", "sent", "paid", "overdue", "void"}

\* Invoice(...) as a caller constructs it: number blank, totals at their
\* defaults, status draft, paid_date NULL.
NewInvoice(in) ==
    [invoice_number  |-> EmptyNumber,
     subtotal        |-> in.subtotal,
     discount_amount |-> in.discount_amount,
     tax_rate        |-> in.tax_rate,
     tax_amount      |-> 0,
     total_amount    |-> 0,
     status          |-> "draft",
     paid_date       |-> NoDate]

\* Invoice.objects.filter(invoice_number__startswith=prefix)
WithPrefix(rows, prefix) ==
    {i \in 1..Len(rows) : rows[i].invoice_number.prefix = prefix}

\* .order_by('-invoice_number').first(), on a non-empty selection
LastInvoice(rows, sel) ==
    CHOOSE i \in sel : \A j \in sel :
        j = i \/ ~TextLess(rows[i].invoice_number.seq, rows[j].invoice_number.seq)

\* the month filter left out: the last invoice of any month is continued
NextNumberAnyMonth(rows, prefix) ==
    LET sel == 1..Len(rows)
    IN  IF sel # {}
        THEN ParseInt(rows[LastInvoice(rows, sel)].invoice_number.seq) + 1
        ELSE 1

\* lines 313-323: new_num from the last invoice of the month
NextNumber(rows, prefix) ==
    LET sel == WithPrefix(rows, prefix)
    IN  IF sel # {}
        THEN ParseInt(rows[LastInvoice(rows, sel)].invoice_number.seq) + 1
        ELSE 1

generate_invoice_number(obj, t, rows) ==
    IF obj.invoice_number # EmptyNumber
    THEN obj
    ELSE [obj EXCEPT !.invoice_number =
              [prefix |-> Prefix(t), seq |-> FormatSeq(NextNumber(rows, Prefix(t)))]]

calculate_totals(obj) ==
    LET tax == TimesPercent(obj.subtotal - obj.discount_amount, obj.tax_rate)
    IN  [obj EXCEPT !.tax_amount   = tax,
                    !.total_amount = obj.subtotal - obj.discount_amount + tax]

InvoicePreSaveRenumber(obj, t, rows) ==
    calculate_totals([obj EXCEPT !.invoice_number =
                         [prefix |-> Prefix(t),
                          seq |-> FormatSeq(NextNumber(rows, Prefix(t)))]])

\* Invoice.save up to, not including, super().save()
InvoicePreSave(obj, t, rows) ==
    calculate_totals(IF obj.invoice_number = EmptyNumber
                     THEN generate_invoice_number(obj, t, rows)
                     ELSE obj)

\* the row the database keeps of a saved object
InvoiceRow(obj, mode) ==
    [obj EXCEPT !.tax_amount   = Quantize2(obj.tax_amount, mode),
                !.total_amount = Quantize2(obj.total_amount, mode)]

UniqueViolationOff(rows, number) == FALSE

\* invoice_number = CharField(unique=True): an INSERT of a number that some
\* row already holds raises IntegrityError
UniqueViolation(rows, number) ==
    \E i \in 1..Len(rows) : rows[i].invoice_number = number

\* what callers put into a new invoice: (subtotal, discount_amount, tax_rate)
InvoiceInputs ==
    { [subtotal |-> Money(1000, 0), discount_amount |-> Money(100, 0), tax_rate |-> 1500],
      [subtotal |-> Money(10, 5),   discount_amount |-> 0,             tax_rate |-> 1000] }

BlankInvoice == NewInvoice([subtotal |-> 0, discount_amount |-> 0, tax_rate |-> 0])

\* Invoice(...).save(), first part: generate_invoice_number reads the clock
\* and queries the table, calculate_totals fills the totals.
CreateBegin(c, in) ==
    /\ cpc[c] = "idle"
    /\ Len(invoices) < MaxInvoices
    /\ cobj' = [cobj EXCEPT ![c] = InvoicePreSave(NewInvoice(in), now, invoices)]
    /\ cpc' = [cpc EXCEPT ![c] = "insert"]
    /\ cresult' = [cresult EXCEPT ![c] = "none"]
    /\ UNCHANGED <<now, dbRounding, invoices, paymentVars, mrrVars, saving, dealVars, crmVars, history>>

\* Invoice.save, second part: super().save() issues the INSERT.  The unique
\* constraint rejects a number already present; save() has no handler, so
\* the IntegrityError propagates to the caller and nothing is stored.
CreateInsert(c) ==
    /\ cpc[c] = "insert"
    /\ IF UniqueViolation(invoices, cobj[c].invoice_number)
       THEN /\ cresult' = [cresult EXCEPT ![c] = "IntegrityError"]
            /\ UNCHANGED invoices
       ELSE /\ cresult' = [cresult EXCEPT ![c] = "created"]
            /\ invoices' = Append(invoices, InvoiceRow(cobj[c], dbRounding))
    /\ cpc' = [cpc EXCEPT ![c] = "idle"]
    /\ cobj' = [cobj EXCEPT ![c] = BlankInvoice]
    /\ UNCHANGED <<now, dbRounding, paymentVars, mrrVars, saving, dealVars, crmVars, history>>

InitInvoiceTable ==
    /\ invoices = <<>>
    /\ cpc = [c \in Creators |-> "idle"]
    /\ cobj = [c \in Creators |-> BlankInvoice]
    /\ cresult = [c \in Creators |-> "none"]

----------------------------------------------------------------------------
(* Payment *)

PaymentStatus == {"pending", "succeeded", "failed", "refunded"}

NoPayment ==
    [exists |-> FALSE, invoice |-> 0, status |-> "pending", processed_at |-> NoDate]

NotLoaded == [loaded |-> FALSE, obj |-> BlankInvoice]

\* processed_at stamped when the row is created
CreatePaymentStamped(p, i) ==
    /\ ~payments[p].exists
    /\ i \in 1..Len(invoices)
    /\ payments' = [payments EXCEPT ![p] =
                       [exists |-> TRUE, invoice |-> i, status |-> "pending",
                        processed_at |-> now]]
    /\ UNCHANGED <<now, dbRounding, invoiceVars, spc, cached, calls, mrrVars, saving, dealVars, crmVars, history>>

\* Payment.objects.create(invoice=i, ...): status defaults to pending,
\* processed_at to NULL
CreatePayment(p, i) ==
    /\ ~payments[p].exists
    /\ i \in 1..Len(invoices)
    /\ payments' = [payments EXCEPT ![p] =
                       [exists |-> TRUE, invoice |-> i, status |-> "pending",
                        processed_at |-> NoDate]]
    /\ UNCHANGED <<now, dbRounding, invoiceVars, spc, cached, calls, mrrVars, saving, dealVars, crmVars, history>>

\* mark_as_succeeded, lines 417-419: the payment is written and committed
SettlePaymentWrite(p) ==
    /\ payments[p].exists
    /\ spc[p] \in {"new", "done", "failed"}
    /\ calls[p] < MaxCalls
    /\ payments' = [payments EXCEPT ![p].status = "succeeded",
                                    ![p].processed_at = now]
    /\ spc' = [spc EXCEPT ![p] = "invoice"]
    /\ UNCHANGED <<now, dbRounding, invoiceVars, cached, calls, mrrVars, saving, dealVars, crmVars, history>>

\* self.invoice: the related object, fetched on first access and kept
InvoiceOf(p) ==
    IF cached[p].loaded THEN cached[p].obj ELSE invoices[payments[p].invoice]

\* lines 422-423: the in-memory invoice after the two assignments
SettledInvoice(p, t) ==
    [InvoiceOf(p) EXCEPT !.status = "paid", !.paid_date = Date(t)]

\* mark_as_succeeded, lines 422-424: the invoice is set paid and saved
\* (Invoice.save writes every field of the in-memory object)
SettleInvoiceWrite(p) ==
    /\ spc[p] = "invoice"
    /\ LET obj == InvoicePreSave(SettledInvoice(p, now), now, invoices)
       IN  /\ invoices' = [invoices EXCEPT ![payments[p].invoice] =
                               InvoiceRow(obj, dbRounding)]
           /\ cached' = [cached EXCEPT ![p] = [loaded |-> TRUE, obj |-> obj]]
    /\ spc' = [spc EXCEPT ![p] = "done"]
    /\ calls' = [calls EXCEPT ![p] = @ + 1]
    /\ UNCHANGED <<now, dbRounding, cpc, cobj, cresult, payments, mrrVars, saving, dealVars, crmVars, history>>

\* mark_as_succeeded raises, or its process dies, after self.save() of line
\* 419 has committed and before self.invoice.save() of line 424 has: no
\* transaction encloses the two writes, so the payment write stays.
SettleInterrupted(p) ==
    /\ spc[p] = "invoice"
    /\ spc' = [spc EXCEPT ![p] = "failed"]
    /\ UNCHANGED <<now, dbRounding, invoiceVars, payments, cached, calls, mrrVars, saving, dealVars, crmVars, history>>

\* The invoice change form of the admin: an unpaid invoice is set void
VoidInvoice(i) ==
    /\ i \in 1..Len(invoices)
    /\ invoices[i].status \notin {"paid", "void"}
    /\ invoices' = [invoices EXCEPT ![i] =
           InvoiceRow(InvoicePreSave([invoices[i] EXCEPT !.status = "void"],
                                     now, invoices), dbRounding)]
    /\ UNCHANGED <<now, dbRounding, cpc, cobj, cresult, paymentVars, mrrVars, saving, dealVars, crmVars, history>>

\* the status of a payment is changed in the admin; processed_at is a
\* read-only field there and keeps its value
PaymentAdminSave(p, st) ==
    /\ payments[p].exists
    /\ payments[p].status # st
    /\ payments' = [payments EXCEPT ![p].status = st]
    /\ UNCHANGED <<now, dbRounding, invoiceVars, spc, cached, calls, mrrVars, saving, dealVars, crmVars, history>>

\* Payment.__str__ (line 413) reads self.invoice: the related invoice is
\* fetched and kept on the Payment object
LoadInvoice(p) ==
    /\ payments[p].exists
    /\ ~cached[p].loaded
    /\ spc[p] = "new"
    /\ cached' = [cached EXCEPT ![p] =
                     [loaded |-> TRUE, obj |-> invoices[payments[p].invoice]]]
    /\ UNCHANGED <<now, dbRounding, invoiceVars, payments, spc, calls, mrrVars,
                   saving, dealVars, crmVars, history>>

\* The invoice change form of the admin: subtotal, discount_amount and
\* tax_rate are editable; Invoice.save recomputes the totals
EditInvoice(i, in) ==
    /\ i \in 1..Len(invoices)
    /\ <<invoices[i].subtotal, invoices[i].discount_amount, invoices[i].tax_rate>>
           # <<in.subtotal, in.discount_amount, in.tax_rate>>
    /\ invoices' = [invoices EXCEPT ![i] =
           InvoiceRow(InvoicePreSave([invoices[i] EXCEPT
                                         !.subtotal = in.subtotal,
                                         !.discount_amount = in.discount_amount,
                                         !.tax_rate = in.tax_rate],
                                     now, invoices), dbRounding)]
    /\ UNCHANGED <<now, dbRounding, cpc, cobj, cresult, paymentVars, mrrVars,
                   saving, dealVars, crmVars, history>>

MaxDeletes == 2     \* invoices deleted over a behaviour

\* rows 1..Len(rows) without row i
Without(rows, i) == SubSeq(rows, 1, i - 1) \o SubSeq(rows, i + 1, Len(rows))

\* invoice.delete() (the delete view of the admin): the row is removed, its
\* payments go with it (on_delete=CASCADE), and the historical record of the
\* deletion keeps the number.  A payment names its invoice by the position
\* of the row, which moves up with the rows behind the deleted one.
DeleteInvoice(i) ==
    /\ i \in 1..Len(invoices)
    /\ Cardinality(history) < MaxDeletes
    /\ history' = history \cup {invoices[i].invoice_number}
    /\ invoices' = Without(invoices, i)
    /\ payments' = [p \in PaymentIds |->
                       IF ~payments[p].exists \/ payments[p].invoice < i THEN payments[p]
                       ELSE IF payments[p].invoice = i THEN NoPayment
                       ELSE [payments[p] EXCEPT !.invoice = @ - 1]]
    /\ UNCHANGED <<now, dbRounding, cpc, cobj, cresult, spc, cached, calls, mrrVars,
                   saving, dealVars, crmVars>>

InitPaymentTable ==
    /\ payments = [p \in PaymentIds |-> NoPayment]
    /\ spc = [p \in PaymentIds |-> "new"]
    /\ cached = [p \in PaymentIds |-> NotLoaded]
    /\ calls = [p \in PaymentIds |-> 0]

----------------------------------------------------------------------------
(* Subscription pricing *)

NoPrice == -1          \* custom_price IS NULL

NoBranch == [exists |-> FALSE, subscription_start_date |-> 0,
             subscription_end_date |-> NoDate]

\* restaurant.branches.filter(subscription_start_date__lte=d1)
\*     .filter(Q(subscription_end_date__isnull=True) |
\*             Q(subscription_end_date__gt=d2)).count()
BillableCount(brs, d1, d2) ==
    Cardinality({b \in BranchIds :
        /\ brs[b].exists
        /\ brs[b].subscription_start_date <= d1
        /\ (brs[b].subscription_end_date = NoDate
            \/ brs[b].subscription_end_date > d2)})

\* line 172: `self.custom_price if self.custom_price else self.plan.base_price`
\* tests the truth value of custom_price: None and Decimal('0.00') are both false
Base(s, pl) ==
    IF s.custom_price # NoPrice /\ s.custom_price # 0
    THEN s.custom_price
    ELSE pl.base_price

BeforeDiscountAllBranches(base, pl, n) ==
    IF n <= pl.included_branches
    THEN base
    ELSE base + (n * pl.price_per_extra_branch)

\* lines 175-179
BeforeDiscount(base, pl, n) ==
    IF n <= pl.included_branches
    THEN base
    ELSE base + ((n - pl.included_branches) * pl.price_per_extra_branch)

\* lines 182-183
ApplyDiscount(total, discount) ==
    IF discount > 0
    THEN TimesPercent(total, 10000 - discount)
    ELSE total

\* calculate_mrr with billable_count = n; the frame keeps the locals.
\* Totals are Units, a discounted total being total * (10000 - discount)
\* ten-thousandths of a cent; an undiscounted one is scaled alike.
calculate_mrr(s, pl, n) ==
    LET base  == Base(s, pl)
        total == BeforeDiscount(base, pl, n)
    IN  [called          |-> TRUE,
         billable_count  |-> n,
         custom_price    |-> s.custom_price,
         base_price      |-> pl.base_price,
         included        |-> pl.included_branches,
         extra_price     |-> pl.price_per_extra_branch,
         discount        |-> s.discount_percentage,
         base            |-> base,
         total           |-> ApplyDiscount(total, s.discount_percentage)]

NoCalc ==
    [called |-> FALSE, billable_count |-> 0, custom_price |-> NoPrice,
     base_price |-> 0, included |-> 0, extra_price |-> 0, discount |-> 0,
     base |-> 0, total |-> 0]

NoSub == [exists |-> FALSE, custom_price |-> NoPrice, discount_percentage |-> 0,
          mrr |-> 0]

\* inputs of the callers
Plans ==
    { [base_price |-> Money(200, 0), included_branches |-> 1,
       price_per_extra_branch |-> Money(50, 0)],
      [base_price |-> Money(250, 0), included_branches |-> 2,
       price_per_extra_branch |-> Money(50, 0)] }
CustomPrices == {NoPrice, 0, Money(150, 5)}     \* NULL, 0.00, 150.05
Discounts    == {0, 1000}                       \* 0%, 10%
AssignedMrr  == {0, Money(999, 0)}

\* Subscription.save() of an object whose fields the caller has set
\* (mrr included): line 189 replaces mrr by calculate_mrr(), line 190 writes
\* the row, the mrr column keeping two decimal places.  The two clock reads
\* of the branch query (lines 165 and 168) are taken on one date.
SubscriptionSave(cp, d, m) ==
    LET obj   == [exists |-> TRUE, custom_price |-> cp,
                  discount_percentage |-> d, mrr |-> m]
        frame == calculate_mrr(obj, plan,
                               BillableCount(branches, Date(now), Date(now)))
    IN  /\ calc' = frame
        /\ sub' = [obj EXCEPT !.mrr = Quantize2(frame.total, dbRounding)]
        /\ UNCHANGED <<now, dbRounding, invoiceVars, paymentVars, saving, dealVars, crmVars, history, plan, branches>>

\* the plan's prices are changed (administrative price change)
PlanSave(pl) ==
    /\ pl # plan
    /\ plan' = pl
    /\ UNCHANGED <<now, dbRounding, invoiceVars, paymentVars, saving, dealVars, crmVars, history, sub, branches, calc>>

\* a Branch of the restaurant is added, billed from today or from tomorrow
BranchCreate(b, start) ==
    /\ ~branches[b].exists
    /\ \A o \in BranchIds : o < b => branches[o].exists
    /\ branches' = [branches EXCEPT ![b] =
                       [exists |-> TRUE, subscription_start_date |-> start,
                        subscription_end_date |-> NoDate]]
    /\ UNCHANGED <<now, dbRounding, invoiceVars, paymentVars, saving, dealVars, crmVars, history, plan, sub, calc>>

\* a Branch is ended: subscription_end_date is set
BranchEnd(b, end) ==
    /\ branches[b].exists
    /\ branches[b].subscription_end_date = NoDate
    /\ branches' = [branches EXCEPT ![b].subscription_end_date = end]
    /\ UNCHANGED <<now, dbRounding, invoiceVars, paymentVars, saving, dealVars, crmVars, history, plan, sub, calc>>

\* Branch.is_billable, with timezone.now().date() = today
is_billable(br, today) ==
    LET started   == br.subscription_start_date <= today
        not_ended == br.subscription_end_date = NoDate
                         \/ br.subscription_end_date > today
    IN  started /\ not_ended

\* Customer.active_branches_count for the customer of the restaurant: the
\* filter of each restaurant's branches, both operands being the one `today`
active_branches_count(brs, today) ==
    Cardinality({b \in BranchIds :
        /\ brs[b].exists
        /\ brs[b].subscription_start_date <= today
        /\ (brs[b].subscription_end_date = NoDate
            \/ brs[b].subscription_end_date > today)})

\* CustomerQuerySet.with_active_branches: is the customer in the result,
\* i.e. does the Exists() subquery find a branch
with_active_branches(brs, today) ==
    \E b \in BranchIds :
        /\ brs[b].exists
        /\ brs[b].subscription_start_date <= today
        /\ (brs[b].subscription_end_date = NoDate
            \/ brs[b].subscription_end_date > today)

InitMrrTables ==
    /\ plan \in Plans
    /\ sub = NoSub
    /\ branches = [b \in BranchIds |-> NoBranch]
    /\ calc = NoCalc

----------------------------------------------------------------------------
(* Subscription.save step by step.  Under autocommit the branch count is   *)
(* one query and the row write another; the two operands of the query are  *)
(* two separate reads of the clock (lines 165 and 168).                    *)

Savers == {"s1", "s2"}          \* concurrent requests saving the subscription

NoSaving == [pc |-> "idle", obj |-> NoSub, d1 |-> NoDate, d2 |-> NoDate,
             frame |-> NoCalc]

\* line 165: the first operand, timezone.now().date(), of the branch query
SaveReadClock(w, cp, d, m) ==
    /\ saving[w].pc = "idle"
    /\ saving' = [saving EXCEPT ![w] =
                     [pc |-> "dated",
                      obj |-> [exists |-> TRUE, custom_price |-> cp,
                               discount_percentage |-> d, mrr |-> m],
                      d1 |-> Date(now), d2 |-> NoDate, frame |-> NoCalc]]
    /\ UNCHANGED <<now, dbRounding, invoiceVars, paymentVars, mrrVars, dealVars, crmVars, history>>

\* lines 168-189: the second clock read, the count query, the arithmetic and
\* the assignment to self.mrr
SaveCount(w) ==
    /\ saving[w].pc = "dated"
    /\ LET frame == calculate_mrr(saving[w].obj, plan,
                        BillableCount(branches, saving[w].d1, Date(now)))
       IN  saving' = [saving EXCEPT ![w].pc = "computed",
                                    ![w].d2 = Date(now),
                                    ![w].frame = frame,
                                    ![w].obj.mrr = frame.total]
    /\ UNCHANGED <<now, dbRounding, invoiceVars, paymentVars, mrrVars, dealVars, crmVars, history>>

\* line 190: super().save() writes every column of the in-memory object
SavePersist(w) ==
    /\ saving[w].pc = "computed"
    /\ sub' = [saving[w].obj EXCEPT !.mrr = Quantize2(saving[w].obj.mrr, dbRounding)]
    /\ saving' = [saving EXCEPT ![w] = NoSaving]
    /\ UNCHANGED <<now, dbRounding, invoiceVars, paymentVars, plan, branches, calc,
                   dealVars, crmVars, history>>

InitSaving == saving = [w \in Savers |-> NoSaving]

----------------------------------------------------------------------------
(* Sales pipeline: DealViewSet.move_stage (backend/sales/views.py).  The   *)
(* view loads the deal, changes the object in memory, writes the row and   *)
(* then logs a DealActivity: three queries, each a step of its own.        *)

MaxMoves == 2          \* move_stage requests that pass the stage validation

Movers == {"m1", "m2"}          \* concurrent move_stage requests

\* Deal.Stage.choices
Stages ==
    {"new_lead", "contact_made", "qualified", "demo_scheduled", "demo_completed",
     "proposal_sent", "negotiation", "contract_sent", "closed_won", "closed_lost"}

\* request.data.get('stage'): a stage, some other text, None when absent, or
\* any other JSON value of the request body, such as the list ["closed_won"]
NoStage == "None"
Unhashable == {"[closed_won]"}
RequestedStages == Stages \cup {"won", NoStage} \cup Unhashable

\* request.user of each request
UserOf(r) == IF r = "m1" THEN "u1" ELSE "u2"

StageProbabilityByTens(s) ==
    CASE s = "new_lead"       -> 10
      [] s = "contact_made"   -> 20
      [] s = "qualified"      -> 30
      [] s = "demo_scheduled" -> 40
      [] s = "demo_completed" -> 50
      [] s = "proposal_sent"  -> 60
      [] s = "negotiation"    -> 70
      [] s = "contract_sent"  -> 80
      [] s = "closed_won"     -> 100
      [] s = "closed_lost"    -> 0

\* the dictionary stage_probabilities of move_stage
StageProbability(s) ==
    CASE s = "new_lead"       -> 10
      [] s = "contact_made"   -> 20
      [] s = "qualified"      -> 30
      [] s = "demo_scheduled" -> 40
      [] s = "demo_completed" -> 50
      [] s = "proposal_sent"  -> 60
      [] s = "negotiation"    -> 75
      [] s = "contract_sent"  -> 90
      [] s = "closed_won"     -> 100
      [] s = "closed_lost"    -> 0

\* a Deal row with the defaults of the model
NewDeal == [stage |-> "new_lead", probability |-> 10, actual_close_date |-> NoDate]

NoMove == [pc |-> "idle", stage |-> NoStage, obj |-> NewDeal,
           old_stage |-> "new_lead", response |-> 0]

InFlight == {r \in Movers : moving[r].pc # "idle"}

\* request r ends with the response `status` to the requested stage s; the
\* model keeps the latest response only
Respond(r, s, status) ==
    [q \in Movers |->
        IF q = r THEN [NoMove EXCEPT !.stage = s, !.response = status]
        ELSE IF moving[q].pc = "idle" THEN NoMove
        ELSE moving[q]]

\* lines 270-298: get_object(), the validation of the requested stage and
\* the changes made to the object in memory
MoveLoad(r, s) ==
    /\ moving[r].pc = "idle"
    /\ IF s \in Unhashable
       THEN \* line 274: `new_stage not in dict(...)` hashes new_stage; a list
            \* raises TypeError, which the framework answers with a 500
            moving' = Respond(r, s, 500)
       ELSE IF s \notin Stages
       THEN moving' = Respond(r, s, 400)
       ELSE /\ Len(activities) + Cardinality(InFlight) < MaxMoves
            /\ moving' = [moving EXCEPT ![r] =
                [pc |-> "save", stage |-> s,
                 obj |-> [stage |-> s,
                          probability |-> StageProbability(s),
                          actual_close_date |->
                              IF s = "closed_won" /\ deal.actual_close_date = NoDate
                              THEN Date(now)
                              ELSE deal.actual_close_date],
                 old_stage |-> deal.stage, response |-> 0]]
    /\ UNCHANGED <<now, dbRounding, invoiceVars, paymentVars, mrrVars, saving, crmVars, history,
                   deal, activities>>

\* line 300: deal.save() writes every column of the object
MoveSave(r) ==
    /\ moving[r].pc = "save"
    /\ deal' = moving[r].obj
    /\ moving' = [moving EXCEPT ![r].pc = "log"]
    /\ UNCHANGED <<now, dbRounding, invoiceVars, paymentVars, mrrVars, saving, crmVars, history,
                   activities>>

\* the note written only when the stage has changed
MoveLogOnChange(r) ==
    /\ moving[r].pc = "log"
    /\ activities' =
           IF moving[r].old_stage = moving[r].obj.stage
           THEN activities
           ELSE Append(activities,
                       [user |-> UserOf(r), activity_type |-> "note",
                        from |-> moving[r].old_stage, to |-> moving[r].obj.stage])
    /\ moving' = Respond(r, moving[r].stage, 200)
    /\ UNCHANGED <<now, dbRounding, invoiceVars, paymentVars, mrrVars, saving, crmVars, history, deal>>

\* lines 302-310: the activity "Deal moved from <old> to <new>" is created
\* and the object is serialized into the response; the request's locals end
\* with it
MoveLog(r) ==
    /\ moving[r].pc = "log"
    /\ activities' = Append(activities,
                            [user |-> UserOf(r), activity_type |-> "note",
                             from |-> moving[r].old_stage, to |-> moving[r].obj.stage])
    /\ moving' = Respond(r, moving[r].stage, 200)
    /\ UNCHANGED <<now, dbRounding, invoiceVars, paymentVars, mrrVars, saving, crmVars, history, deal>>

\* DealSerializer lets a client write the probability, whatever the stage
EnteredProbabilities == {55}

InitDealTables ==
    /\ deal = NewDeal
    /\ activities = <<>>
    /\ moving = [r \in Movers |-> NoMove]

----------------------------------------------------------------------------
(* Customer life cycle (backend/core/models.py) *)

CustomerStatus == {"onboarding", "active", "at_risk", "churned"}

\* a customer as created: status has the default `onboarding`, the two
\* timestamps are NULL; `called` names the last operation made on the row
NewCustomer ==
    [status |-> "onboarding", activated_at |-> NoDate, churned_at |-> NoDate,
     called |-> "none"]

\* lines 208-221: nothing is done, and nothing is saved, when the status is
\* already `active`
mark_as_active ==
    /\ customer' =
           IF customer.status # "active"
           THEN [customer EXCEPT !.status = "active",
                                 !.activated_at = IF @ = NoDate THEN now ELSE @,
                                 !.called = "mark_as_active"]
           ELSE [customer EXCEPT !.called = "mark_as_active"]
    /\ UNCHANGED <<now, dbRounding, invoiceVars, paymentVars, mrrVars, saving,
                   dealVars, history, leads, reaching, reached>>

\* lines 223-239
mark_at_risk ==
    /\ customer' = [customer EXCEPT !.status = "at_risk", !.called = "mark_at_risk"]
    /\ UNCHANGED <<now, dbRounding, invoiceVars, paymentVars, mrrVars, saving,
                   dealVars, history, leads, reaching, reached>>

\* lines 243-257
mark_churned ==
    /\ customer' = [customer EXCEPT !.status = "churned", !.churned_at = now,
                                    !.called = "mark_churned"]
    /\ UNCHANGED <<now, dbRounding, invoiceVars, paymentVars, mrrVars, saving,
                   dealVars, history, leads, reaching, reached>>

\* the change form of CustomerAdmin: status is an editable field,
\* activated_at is read-only
CustomerAdminSave(st) ==
    /\ customer' = [customer EXCEPT !.status = st, !.called = "admin"]
    /\ UNCHANGED <<now, dbRounding, invoiceVars, paymentVars, mrrVars, saving,
                   dealVars, history, leads, reaching, reached>>

----------------------------------------------------------------------------
(* Leads of the sales team (LeadViewSet of backend/sales/views.py) *)

MaxReach == 2               \* requests that load a lead, over a behaviour
LeadIds  == {1, 2}
Reachers == {"q1", "q2"}
NoUser   == "nobody"        \* NULL in the foreign key assigned_to
NoParam  == "absent"        \* a query parameter that is absent or empty
Assignees == {"u1", "u2"}

\* request.user of each request: q1 is a team member, q2 a manager
Requester(q) == IF q = "q1" THEN "u1" ELSE "mgr"
Role(u) == IF u = "mgr" THEN "manager" ELSE "team_member"
Privileged == {"admin", "manager"}

\* the values `assigned_to` can have in the query string: a user's id or a
\* text that is not a number
BadId == "abc"
Params ==
    [status : {NoParam, "new"}, assigned_to : {NoParam, "u2", BadId},
     source : {NoParam, "website"}, search : {NoParam, "a"}]

\* the query strings tried on the operations on one lead: at most one
\* parameter given (every parameter given narrows the queryset further)
Given(pa) == {k \in {"status", "assigned_to", "source", "search"} : pa[k] # NoParam}
DetailParams == {pa \in Params : Cardinality(Given(pa)) <= 1}

DetailOps == {"mark_contacted", "qualify", "disqualify", "update"}
ListOps   == {"list", "my_leads", "stats"}

\* the queryset with the role filter dropped when the client names an
\* assignee
get_querysetByParam(u, pa) ==
    {l \in LeadIds :
        /\ (Role(u) \notin Privileged /\ pa.assigned_to = NoParam)
               => leads[l].assigned_to \in {u, NoUser}
        /\ pa.status # NoParam => leads[l].status = pa.status
        /\ pa.assigned_to # NoParam => leads[l].assigned_to = pa.assigned_to
        /\ pa.source # NoParam => leads[l].source = pa.source
        /\ pa.search # NoParam => leads[l].name = pa.search}

\* lines 25-62: the role filter, then one filter per query parameter given
get_queryset(u, pa) ==
    {l \in LeadIds :
        /\ Role(u) \notin Privileged => leads[l].assigned_to \in {u, NoUser}
        /\ pa.status # NoParam => leads[l].status = pa.status
        /\ pa.assigned_to # NoParam => leads[l].assigned_to = pa.assigned_to
        /\ pa.source # NoParam => leads[l].source = pa.source
        /\ pa.search # NoParam => leads[l].name = pa.search}

\* what a response shows of a lead
Shown(l, row) == [id |-> l, assigned_to |-> row.assigned_to]

NoLead == [status |-> "new", assigned_to |-> NoUser, source |-> "other",
           name |-> "", first_contacted_at |-> NoDate]

NoReach == [pc |-> "idle", op |-> "none", lead |-> 0, obj |-> NoLead,
            response |-> 0, result |-> {}]

\* the request is answered: its locals end, and only the latest answer of
\* the other requests that are not in flight is kept
Answer(q, op, l, status, shown) ==
    [p \in Reachers |->
        IF p = q THEN [NoReach EXCEPT !.op = op, !.lead = l,
                                      !.response = status, !.result = shown]
        ELSE IF reaching[p].pc = "idle" THEN NoReach
        ELSE reaching[p]]

\* list (ListModelMixin), my_leads (lines 97-106) and stats (lines 108-125):
\* one query over get_queryset(); a text that is no number in assigned_to
\* makes filter(assigned_to_id=...) raise ValueError
LeadList(q, op, pa) ==
    /\ reaching[q].pc = "idle"
    /\ LET u  == Requester(q)
           qs == IF op = "my_leads"
                 THEN {l \in get_queryset(u, pa) : leads[l].assigned_to = u}
                 ELSE get_queryset(u, pa)
       IN  reaching' =
               IF pa.assigned_to = BadId
               THEN Answer(q, op, 0, 500, {})
               ELSE Answer(q, op, 0, 200, {Shown(l, leads[l]) : l \in qs})
    /\ UNCHANGED <<now, dbRounding, invoiceVars, paymentVars, mrrVars, saving,
                   dealVars, history, customer, leads, reached>>

\* the change each detail operation makes to the object in memory
Changed(op, row, a, t) ==
    CASE op = "mark_contacted" ->
             [row EXCEPT !.status = "contacted",
                         !.first_contacted_at = IF @ = NoDate THEN t ELSE @]
      [] op = "qualify"    -> [row EXCEPT !.status = "qualified"]
      [] op = "disqualify" -> [row EXCEPT !.status = "disqualified"]
      [] op = "update"     -> [row EXCEPT !.assigned_to = a]

\* get_object() looks the lead up in get_queryset() and answers 404 when it
\* is not there; then the object is changed in memory (lines 71-95, and
\* UpdateModelMixin with the writable field assigned_to of LeadSerializer)
LeadLoad(q, op, l, pa, a) ==
    /\ reaching[q].pc = "idle"
    /\ LET u == Requester(q) IN
       IF pa.assigned_to = BadId
       THEN reaching' = Answer(q, op, l, 500, {}) /\ UNCHANGED reached
       ELSE IF l \notin get_queryset(u, pa)
       THEN reaching' = Answer(q, op, l, 404, {}) /\ UNCHANGED reached
       ELSE /\ reached < MaxReach
            /\ reached' = reached + 1
            /\ reaching' = [reaching EXCEPT ![q] =
                    [pc |-> "save", op |-> op, lead |-> l,
                     obj |-> Changed(op, leads[l], a, now),
                     response |-> 0, result |-> {}]]
    /\ UNCHANGED <<now, dbRounding, invoiceVars, paymentVars, mrrVars, saving,
                   dealVars, history, customer, leads>>

\* lead.save() writes every column of the object; the response shows it
LeadSave(q) ==
    /\ reaching[q].pc = "save"
    /\ leads' = [leads EXCEPT ![reaching[q].lead] = reaching[q].obj]
    /\ reaching' = Answer(q, reaching[q].op, reaching[q].lead, 200,
                          {Shown(reaching[q].lead, reaching[q].obj)})
    /\ UNCHANGED <<now, dbRounding, invoiceVars, paymentVars, mrrVars, saving,
                   dealVars, history, customer, reached>>

\* two leads entered by the sales team: one of another team member, one
\* that nobody has been assigned to yet
InitLeads ==
    (1 :> [status |-> "new", assigned_to |-> "u2", source |-> "website",
           name |-> "a", first_contacted_at |-> NoDate])
    @@ (2 :> [status |-> "new", assigned_to |-> NoUser, source |-> "referral",
              name |-> "b", first_contacted_at |-> NoDate])

InitCrmTables ==
    /\ customer = NewCustomer
    /\ leads = InitLeads
    /\ reaching = [q \in Reachers |-> NoReach]
    /\ reached = 0

----------------------------------------------------------------------------
(* Specifications *)

DefaultPlan ==
    [base_price |-> Money(200, 0), included_branches |-> 1,
     price_per_extra_branch |-> Money(50, 0)]

\* an invoice created and saved by a request running alone
CreatedAlone(rows, in, t, mode) ==
    Append(rows, InvoiceRow(InvoicePreSave(NewInvoice(in), t, rows), mode))

\* Settlement: two invoices exist, created one after the other; payments are
\* created and settled, invoices voided, the clock advances.
Init ==
    /\ now = 0
    /\ dbRounding \in RoundingModes
    /\ \E in1 \in InvoiceInputs : \E in2 \in InvoiceInputs :
           /\ in1 # in2
           /\ in1.discount_amount > 0
           /\ invoices = CreatedAlone(CreatedAlone(<<>>, in1, 0, dbRounding),
                                      in2, 0, dbRounding)
    /\ cpc = [c \in Creators |-> "idle"]
    /\ cobj = [c \in Creators |-> BlankInvoice]
    /\ cresult = [c \in Creators |-> "none"]
    /\ InitPaymentTable
    /\ plan = DefaultPlan
    /\ sub = NoSub
    /\ branches = [b \in BranchIds |-> NoBranch]
    /\ calc = NoCalc
    /\ InitSaving
    /\ InitDealTables
    /\ InitCrmTables
    /\ history = {}

Next ==
    \/ Tick
    \/ \E p \in PaymentIds : \E i \in 1..Len(invoices) : CreatePayment(p, i)
    \/ \E p \in PaymentIds : SettlePaymentWrite(p)
    \/ \E p \in PaymentIds : SettleInvoiceWrite(p)
    \/ \E p \in PaymentIds : SettleInterrupted(p)
    \/ \E i \in 1..Len(invoices) : VoidInvoice(i)

Spec == Init /\ [][Next]_vars

\* Settlement of payments whose invoice is edited in the admin meanwhile.
NextEdit ==
    \/ Tick
    \/ \E p \in PaymentIds : \E i \in 1..Len(invoices) : CreatePayment(p, i)
    \/ \E p \in PaymentIds : LoadInvoice(p)
    \/ \E p \in PaymentIds : SettlePaymentWrite(p)
    \/ \E p \in PaymentIds : SettleInvoiceWrite(p)
    \/ \E i \in 1..Len(invoices) : \E in \in InvoiceInputs : EditInvoice(i, in)

SpecEdit == Init /\ [][NextEdit]_vars

\* Settlement as above, with the payment status also edited in the admin.
NextPayment ==
    \/ Next
    \/ \E p \in PaymentIds : \E st \in PaymentStatus : PaymentAdminSave(p, st)

SpecPayment == Init /\ [][NextPayment]_vars

\* Invoice creation: requests create invoices concurrently while the clock
\* advances across the end of a month.
InitInvoice ==
    /\ now = 0
    /\ dbRounding \in RoundingModes
    /\ InitInvoiceTable
    /\ InitPaymentTable
    /\ plan = DefaultPlan
    /\ sub = NoSub
    /\ branches = [b \in BranchIds |-> NoBranch]
    /\ calc = NoCalc
    /\ InitSaving
    /\ InitDealTables
    /\ InitCrmTables
    /\ history = {}

NextInvoice ==
    \/ Tick
    \/ \E c \in Creators : \E in \in InvoiceInputs : CreateBegin(c, in)
    \/ \E c \in Creators : CreateInsert(c)

SpecInvoice == InitInvoice /\ [][NextInvoice]_vars

\* invoices are created, one request after the other, and deleted
NextDelete ==
    \/ Tick
    \/ \E in \in InvoiceInputs : CreateBegin("r1", in)
    \/ CreateInsert("r1")
    \/ \E i \in 1..Len(invoices) : DeleteInvoice(i)

SpecDelete == InitInvoice /\ [][NextDelete]_vars

\* The largest sequence number that f"{new_num:04d}" prints in four digits
LastFourDigit == 9999

\* A month in which LastFourDigit invoices have been created.  Of its table
\* the row with the highest number is kept: every row below it sorts below
\* it as text and as a number, and is never the last invoice of the month.
InitLongMonth ==
    /\ now = 0
    /\ dbRounding \in RoundingModes
    /\ \E in \in InvoiceInputs :
           invoices = <<[InvoiceRow(InvoicePreSave(NewInvoice(in), 0, <<>>), dbRounding)
                            EXCEPT !.invoice_number.seq = FormatSeq(LastFourDigit)]>>
    /\ cpc = [c \in Creators |-> "idle"]
    /\ cobj = [c \in Creators |-> BlankInvoice]
    /\ cresult = [c \in Creators |-> "none"]
    /\ InitPaymentTable
    /\ plan = DefaultPlan
    /\ sub = NoSub
    /\ branches = [b \in BranchIds |-> NoBranch]
    /\ calc = NoCalc
    /\ InitSaving
    /\ InitDealTables
    /\ InitCrmTables
    /\ history = {}

\* one request after the other creates an invoice
NextLongMonth ==
    \/ Tick
    \/ \E in \in InvoiceInputs : CreateBegin("r1", in)
    \/ CreateInsert("r1")

SpecLongMonth == InitLongMonth /\ [][NextLongMonth]_vars

\* Subscription pricing: the subscription is saved, branches are added and
\* ended, the plan is repriced, the clock advances.
InitMrr ==
    /\ now = 0
    /\ dbRounding \in RoundingModes
    /\ InitInvoiceTable
    /\ InitPaymentTable
    /\ InitMrrTables
    /\ InitSaving
    /\ InitDealTables
    /\ InitCrmTables
    /\ history = {}

\* dates a caller enters for a branch: today or tomorrow, within the dates
\* the clock reaches
NearDates == {d \in {Date(now), Date(now) + 1} : d <= Date(MaxNow)}

NextMrr ==
    \/ Tick
    \/ \E cp \in CustomPrices : \E d \in Discounts : \E m \in AssignedMrr :
           SubscriptionSave(cp, d, m)
    \/ \E pl \in Plans : PlanSave(pl)
    \/ \E b \in BranchIds : \E start \in NearDates : BranchCreate(b, start)
    \/ \E b \in BranchIds : \E end \in NearDates : BranchEnd(b, end)

SpecMrr == InitMrr /\ [][NextMrr]_vars

\* Subscription.save step by step, concurrent with itself and with changes
\* of the branches.
SaveInputs == {0, 1000}          \* discount_percentage of the saved object

NextSave ==
    \/ Tick
    \/ \E w \in Savers : \E d \in SaveInputs : SaveReadClock(w, NoPrice, d, 0)
    \/ \E w \in Savers : SaveCount(w)
    \/ \E w \in Savers : SavePersist(w)
    \/ \E b \in BranchIds : \E start \in NearDates : BranchCreate(b, start)
    \/ \E b \in BranchIds : \E end \in NearDates : BranchEnd(b, end)

InitSave ==
    /\ now = 0
    /\ dbRounding \in RoundingModes
    /\ InitInvoiceTable
    /\ InitPaymentTable
    /\ plan = DefaultPlan
    /\ sub = NoSub
    /\ branches = [b \in BranchIds |-> NoBranch]
    /\ calc = NoCalc
    /\ InitSaving
    /\ InitDealTables
    /\ InitCrmTables
    /\ history = {}

SpecSave == InitSave /\ [][NextSave]_vars

\* Subscription.save called with any discount_percentage the column can hold:
\* the validators of the field run in full_clean(), which save() never calls.
InvalidDiscounts == {-1000, 15000}          \* -10%, 150%

NextUnchecked ==
    \/ Tick
    \/ \E cp \in CustomPrices : \E d \in Discounts \cup InvalidDiscounts :
           \E m \in AssignedMrr : SubscriptionSave(cp, d, m)
    \/ \E b \in BranchIds : \E start \in NearDates : BranchCreate(b, start)

SpecUnchecked == InitMrr /\ [][NextUnchecked]_vars

\* Sales pipeline: a deal, with the default probability or with one a
\* client entered, is moved between stages by concurrent requests while the
\* clock advances.
InitDeal ==
    /\ now = 0
    /\ dbRounding = "half_even"
    /\ InitInvoiceTable
    /\ InitPaymentTable
    /\ plan = DefaultPlan
    /\ sub = NoSub
    /\ branches = [b \in BranchIds |-> NoBranch]
    /\ calc = NoCalc
    /\ InitSaving
    /\ deal \in {NewDeal} \cup
                {[NewDeal EXCEPT !.probability = pr] : pr \in EnteredProbabilities}
    /\ activities = <<>>
    /\ moving = [r \in Movers |-> NoMove]
    /\ InitCrmTables
    /\ history = {}

NextDeal ==
    \/ Tick
    \/ \E r \in Movers : \E s \in RequestedStages : MoveLoad(r, s)
    \/ \E r \in Movers : MoveSave(r)
    \/ \E r \in Movers : MoveLog(r)

SpecDeal == InitDeal /\ [][NextDeal]_vars

\* the sales team at work while billing is at rest
InitCrm ==
    /\ now = 0
    /\ dbRounding = "half_even"
    /\ InitInvoiceTable
    /\ InitPaymentTable
    /\ plan = DefaultPlan
    /\ sub = NoSub
    /\ branches = [b \in BranchIds |-> NoBranch]
    /\ calc = NoCalc
    /\ InitSaving
    /\ InitDealTables
    /\ InitCrmTables
    /\ history = {}

\* the life cycle of one customer: the three methods of the model and the
\* status edited in the admin
NextCustomer ==
    \/ Tick
    \/ mark_as_active
    \/ mark_at_risk
    \/ mark_churned
    \/ \E st \in CustomerStatus : CustomerAdminSave(st)

SpecCustomer == InitCrm /\ [][NextCustomer]_vars

\* requests of a team member and of a manager on the leads
NextLead ==
    \/ \E q \in Reachers : \E op \in ListOps : \E pa \in Params : LeadList(q, op, pa)
    \/ \E q \in Reachers : \E op \in DetailOps : \E l \in LeadIds :
           \E pa \in DetailParams :
               \E a \in IF op = "update" THEN Assignees \cup {NoUser} ELSE {NoUser} :
                   LeadLoad(q, op, l, pa, a)
    \/ \E q \in Reachers : LeadSave(q)

SpecLead == InitCrm /\ [][NextLead]_vars

----------------------------------------------------------------------------
(* Invoice numbering under concurrent creation *)

SameNumber(i, j) == invoices[i].invoice_number = invoices[j].invoice_number

\* C2: no two persisted invoices have the same invoice_number, whatever the
\* interleaving of the concurrent creations (query of the highest number,
\* then INSERT).
InvoiceNumbersUnique ==
    \A i \in 1..Len(invoices) : \A j \in 1..Len(invoices) :
        i # j => ~SameNumber(i, j)

\* Two requests had computed the same number; one of them has inserted it
\* and the other was turned away by the unique constraint.
CollisionRejected ==
    /\ Len(invoices) >= 2
    /\ \E c \in Creators : cresult[c] = "IntegrityError"

\* rows 1..i that carry the month prefix of row i
EarlierInMonth(i) ==
    {j \in 1..i : invoices[j].invoice_number.prefix = invoices[i].invoice_number.prefix}

\* C3: the k-th invoice persisted with a month's prefix carries sequence k:
\* within a month the sequence numbers increase by one in creation order,
\* without gap or duplicate, also when the creations run concurrently.
MonthSequenceGapless ==
    \A i \in 1..Len(invoices) :
        /\ Len(invoices[i].invoice_number.seq) = PadWidth
        /\ ParseInt(invoices[i].invoice_number.seq) = Cardinality(EarlierInMonth(i))

\* Three invoices were persisted by overlapping requests, one request
\* having lost a collision, and a month holds at least two of them.
ConcurrentMonthFilled ==
    /\ Len(invoices) >= 3
    /\ \E c \in Creators : cresult[c] = "IntegrityError"
    /\ \E i \in 1..Len(invoices) : Cardinality(EarlierInMonth(i)) >= 2

\* C4: a creation that loses the race for a number retries with a fresh
\* sequence value, so no creation request ends in an error.
NoCreationFails ==
    \A c \in Creators : cresult[c] # "IntegrityError"

----------------------------------------------------------------------------
(* Payment settlement *)

InvoiceRowOf(p) == invoices[payments[p].invoice]

\* C1: settlement is atomic.  In no state outside a running settlement, in
\* particular in none left behind by a settlement that failed between its
\* two writes, is a payment stored as succeeded while its invoice is stored
\* as not paid, nor has a settlement set the invoice paid while the payment
\* is not succeeded.
SettlementAtomic ==
    \A p \in PaymentIds :
        (payments[p].exists /\ spc[p] # "invoice") =>
            /\ payments[p].status = "succeeded" => InvoiceRowOf(p).status = "paid"
            /\ calls[p] >= 1 => payments[p].status = "succeeded"

\* C5: settling is idempotent.  Once a call of mark_as_succeeded has
\* completed on a payment, a further call leaves payment.status and
\* payment.processed_at as they were, and its invoice write leaves
\* invoice.status and invoice.paid_date as they were.
SettleIdempotent ==
    [][\A p \in PaymentIds :
          calls[p] >= 1 =>
              /\ payments'[p].status = payments[p].status
              /\ payments'[p].processed_at = payments[p].processed_at
              /\ (spc[p] = "invoice" /\ spc'[p] = "done") =>
                     /\ InvoiceRowOf(p)'.status = InvoiceRowOf(p).status
                     /\ InvoiceRowOf(p)'.paid_date = InvoiceRowOf(p).paid_date]_vars

\* the invoice of p is void, or is paid although no settlement of p has
\* ever completed (so it was paid through another payment)
ConflictingInvoice(p) ==
    \/ InvoiceRowOf(p).status = "void"
    \/ InvoiceRowOf(p).status = "paid" /\ calls[p] = 0

\* C6: settling a payment whose invoice is void or already paid through
\* another payment ends in an error and leaves the invoice's status and
\* paid_date unchanged: the call never completes normally there.
SettleConflictRejected ==
    [][\A p \in PaymentIds :
          (spc[p] = "invoice" /\ spc'[p] # "invoice" /\ ConflictingInvoice(p)) =>
              /\ spc'[p] = "failed"
              /\ InvoiceRowOf(p)'.status = InvoiceRowOf(p).status
              /\ InvoiceRowOf(p)'.paid_date = InvoiceRowOf(p).paid_date]_vars

----------------------------------------------------------------------------
(* Subscription pricing *)

\* what Subscription.save would store if it ran in the current state
MrrNow ==
    Quantize2(calculate_mrr(sub, plan,
                  BillableCount(branches, Date(now), Date(now))).total,
              dbRounding)

\* C7: in every state the stored mrr is the pricing formula on the current
\* plan prices, custom_price, discount_percentage and billable branch count
\* (compared at the two decimal places the column keeps).
MrrAlwaysCurrent ==
    sub.exists => sub.mrr = MrrNow

\* C8: after every Subscription.save the persisted mrr equals the value
\* calculate_mrr() returned in that save.
MrrEqualsCalculated ==
    sub.exists => sub.mrr = calc.total

\* C9: with base the base amount of the call, n the billable count:
\* calculate_mrr returns base * (1 - discount/100) if n <= included_branches,
\* whatever n is, and otherwise
\* (base + (n - included_branches) * price_per_extra_branch) * (1 - discount/100).
MrrFormula ==
    calc.called =>
        LET gross == IF calc.billable_count <= calc.included
                     THEN calc.base
                     ELSE calc.base + (calc.billable_count - calc.included)
                                      * calc.extra_price
        IN  calc.total = (gross \div Cent) * (10000 - calc.discount)

\* The example of the specification: base 200, 1 branch included, 50 per
\* extra branch, 3 billable branches, 10% discount: 270.00.
MrrExample ==
    /\ calc.called
    /\ calc.base = Money(200, 0)
    /\ calc.included = 1
    /\ calc.extra_price = Money(50, 0)
    /\ calc.billable_count = 3
    /\ calc.discount = 1000
    /\ calc.total = Money(270, 0)

\* C10: whenever custom_price is set (not null), zero included, the base
\* amount calculate_mrr uses is custom_price; plan.base_price is used only
\* when custom_price is not set.
CustomPriceIsBase ==
    calc.called =>
        calc.base = IF calc.custom_price # NoPrice
                    THEN calc.custom_price
                    ELSE calc.base_price

----------------------------------------------------------------------------
(* Invoice totals and numbers across saves *)

Abs(v) == IF v < 0 THEN -v ELSE v

\* the tax of a row by the formula, unrounded
TaxByFormula(r) == ((r.subtotal - r.discount_amount) \div Cent) * r.tax_rate

\* C11: after every Invoice.save the invoice's tax_amount is
\* (subtotal - discount_amount) * tax_rate / 100, to the two decimal places
\* of the column, and its total_amount is subtotal - discount_amount +
\* tax_amount.
InvoiceTotalsConsistent ==
    \A i \in 1..Len(invoices) :
        /\ 2 * Abs(invoices[i].tax_amount - TaxByFormula(invoices[i])) <= Cent
        /\ invoices[i].total_amount =
               invoices[i].subtotal - invoices[i].discount_amount
                   + invoices[i].tax_amount

\* C12: once an invoice is stored with a number, every later Invoice.save of
\* it (by a settlement, by a status change, in a later month, after other
\* invoices were created) leaves its invoice_number unchanged.
InvoiceNumberKept ==
    [][\A i \in 1..Len(invoices) :
           invoices'[i].invoice_number = invoices[i].invoice_number]_vars

\* An invoice has been saved by a settlement in a month after the month of
\* its number.
PaidInLaterMonth ==
    \E p \in PaymentIds :
        /\ payments[p].exists
        /\ spc[p] = "done"
        /\ invoices[payments[p].invoice].status = "paid"
        /\ Prefix(invoices[payments[p].invoice].paid_date * TicksPerDay)
               # invoices[payments[p].invoice].invoice_number.prefix

\* the sequence numbers stored under a prefix, read as integers
SequencesOf(prefix) ==
    {ParseInt(invoices[i].invoice_number.seq) :
         i \in {j \in 1..Len(invoices) : invoices[j].invoice_number.prefix = prefix}}

Highest(S) == CHOOSE n \in S : \A m \in S : m <= n

\* C13: the first save of an invoice without a number assigns the current
\* year and two-digit month as prefix, followed by the sequence 1 when no
\* invoice of that month exists and by the highest sequence stored for that
\* month plus 1 otherwise, printed in four digits; invoices of other months
\* have no influence.
NumberAssigned ==
    [][\A c \in Creators :
           (cpc[c] = "idle" /\ cpc'[c] = "insert") =>
               LET number == cobj'[c].invoice_number
                   stored == SequencesOf(number.prefix)
               IN  /\ number.prefix = Year(now) * 100 + MonthOfYear(now)
                   /\ Len(number.seq) = 4
                   /\ ParseInt(number.seq) =
                          IF stored = {} THEN 1 ELSE Highest(stored) + 1]_vars

\* INV-202503-0001 and INV-202503-0002 were assigned in March 2025 and the
\* first invoice of April was numbered INV-202504-0001.
MarchThenApril ==
    /\ Len(invoices) = 3
    /\ invoices[1].invoice_number = [prefix |-> 202503, seq |-> <<0, 0, 0, 1>>]
    /\ invoices[2].invoice_number = [prefix |-> 202503, seq |-> <<0, 0, 0, 2>>]
    /\ invoices[3].invoice_number = [prefix |-> 202504, seq |-> <<0, 0, 0, 1>>]

----------------------------------------------------------------------------
(* Settlement dates *)

\* C14: when mark_as_succeeded completes, the payment is succeeded with a
\* processed_at, its invoice is paid, and the invoice's paid_date is the
\* calendar date of the payment's processed_at, however the clock advances
\* between the steps.
PaidOnProcessedDate ==
    [][\A p \in PaymentIds :
           (spc[p] = "invoice" /\ spc'[p] = "done") =>
               /\ payments'[p].status = "succeeded"
               /\ payments'[p].processed_at # NoDate
               /\ InvoiceRowOf(p)'.status = "paid"
               /\ InvoiceRowOf(p)'.paid_date = Date(payments'[p].processed_at)]_vars

----------------------------------------------------------------------------
(* Subscription.save under concurrency, input validation and rounding *)

\* C15: a Subscription.save that runs concurrently with additions and ends
\* of branches, or with another save of the subscription, persists the mrr
\* of the pricing formula applied to the branches committed at the moment
\* of its write and to the fields it writes; no interleaving persists an mrr
\* computed from a stale branch count.
SaveNeverStale ==
    [][\A w \in Savers :
           (saving[w].pc = "computed" /\ saving'[w].pc = "idle") =>
               sub'.mrr =
                   Quantize2(calculate_mrr(sub', plan',
                                 BillableCount(branches', saving[w].d1,
                                               saving[w].d2)).total,
                             dbRounding)]_vars

\* C16: a subscription whose discount_percentage is outside [0, 100] is
\* rejected: no mrr is computed from such a discount and no row holding one
\* is persisted.
DiscountValidated ==
    /\ calc.called => (calc.discount >= 0 /\ calc.discount <= 10000)
    /\ sub.exists  => (sub.discount_percentage >= 0 /\ sub.discount_percentage <= 10000)

\* C17: the value calculate_mrr produces, and the mrr Subscription.save
\* stores, is the priced total rounded half-up to exactly two fraction
\* digits.
MrrRoundedHalfUp ==
    /\ calc.called => calc.total = Quantize2(calc.total, "half_up")
    /\ (sub.exists /\ calc.called) => sub.mrr = Quantize2(calc.total, "half_up")

----------------------------------------------------------------------------
(* The billable-branch rule *)

\* the rule: billable at date D when started on or before D and not ended
\* on or before D
Billable(br, D) ==
    /\ br.subscription_start_date <= D
    /\ (br.subscription_end_date = NoDate \/ br.subscription_end_date > D)

BillableAt(D) == {b \in BranchIds : branches[b].exists /\ Billable(branches[b], D)}

Dates == 0..Date(MaxNow)

\* C18: Branch.is_billable, Customer.active_branches_count,
\* with_active_branches and the count used by Subscription.calculate_mrr
\* all follow the rule, for every branch and every date: the count a
\* calculate_mrr call uses is the number of branches billable on the date
\* the call read from the clock.
BillableRuleAgreed ==
    /\ [](\A D \in Dates :
             /\ \A b \in BranchIds :
                    branches[b].exists =>
                        (is_billable(branches[b], D) <=> Billable(branches[b], D))
             /\ active_branches_count(branches, D) = Cardinality(BillableAt(D))
             /\ with_active_branches(branches, D) <=> (BillableAt(D) # {}))
    /\ [][\A w \in Savers :
              (saving[w].pc = "dated" /\ saving'[w].pc = "computed") =>
                  \E D \in {saving'[w].d1, saving'[w].d2} :
                      saving'[w].frame.billable_count = Cardinality(BillableAt(D))]_vars

----------------------------------------------------------------------------
(* Payment.processed_at *)

\* C19: processed_at is set only on success: a payment on which
\* mark_as_succeeded was never called has an empty processed_at, and whenever
\* processed_at is written, it is written by mark_as_succeeded together with
\* the status succeeded.
ProcessedOnlyOnSuccess ==
    /\ [](\A p \in PaymentIds : spc[p] = "new" => payments[p].processed_at = NoDate)
    /\ [][\A p \in PaymentIds :
              payments'[p].processed_at # payments[p].processed_at =>
                  /\ payments'[p].processed_at # NoDate
                  /\ payments'[p].status = "succeeded"
                  /\ spc'[p] = "invoice"]_vars

\* One payment was settled and later refunded in the admin, keeping its
\* processed_at; another was created and never settled.
SettledThenRefunded ==
    \E p \in PaymentIds : \E q \in PaymentIds :
        /\ payments[p].status = "refunded"
        /\ payments[p].processed_at # NoDate
        /\ calls[p] >= 1
        /\ payments[q].exists
        /\ spc[q] = "new"

----------------------------------------------------------------------------
(* Sales pipeline *)

\* the fixed percentage of each stage
FixedPercentage ==
    { <<"new_lead", 10>>, <<"contact_made", 20>>, <<"qualified", 30>>,
      <<"demo_scheduled", 40>>, <<"demo_completed", 50>>, <<"proposal_sent", 60>>,
      <<"negotiation", 75>>, <<"contract_sent", 90>>, <<"closed_won", 100>>,
      <<"closed_lost", 0>> }

InvalidStageRejected ==
    /\ [](\A r \in Movers :
             (moving[r].response # 0 /\ moving[r].stage \notin Stages) =>
                 moving[r].response = 400)
    /\ [][\A r \in Movers :
              (moving'[r] # moving[r] /\ moving'[r].response # 0
                  /\ moving'[r].stage \notin Stages) =>
                  (deal' = deal /\ activities' = activities)]_vars

\* the step of request r that sends its response to a valid stage
Succeeds(r) == moving[r].pc = "log" /\ moving'[r].pc = "idle"

CloseDateKept ==
    [][/\ deal.actual_close_date # NoDate =>
              deal'.actual_close_date = deal.actual_close_date
       /\ deal'.actual_close_date # deal.actual_close_date =>
              /\ deal'.stage = "closed_won"
              /\ deal'.actual_close_date \in 0..Date(now)]_vars

----------------------------------------------------------------------------
(* Customer activation *)

\* C24: after mark_as_active the customer's status is active and its
\* activated_at is set, whatever the state before the call (also when the
\* status was already active with activated_at empty); and an activated_at
\* that is set is never changed afterwards, also across churn and
\* reactivation.
ActivationRecorded ==
    /\ [](customer.called = "mark_as_active"
              => (customer.status = "active" /\ customer.activated_at # NoDate))
    /\ [][customer.activated_at # NoDate
              => customer'.activated_at = customer.activated_at]_vars

----------------------------------------------------------------------------
(* Leads a team member can reach *)

MarkOps == {"mark_contacted", "qualify", "disqualify"}

Own(q, a) == a \in {Requester(q), NoUser}

----------------------------------------------------------------------------
(* What settlement leaves alone *)

\* C26: mark_as_succeeded changes nothing of the invoice but its status and
\* paid_date (and the totals computed from the stored amounts): a change of
\* subtotal, discount_amount or tax_rate that was committed after the
\* payment's in-memory invoice was loaded is still in the row after the
\* settlement.
SettlementKeepsAmounts ==
    [][\A p \in PaymentIds :
          (spc[p] = "invoice" /\ spc'[p] = "done") =>
              /\ InvoiceRowOf(p)'.subtotal = InvoiceRowOf(p).subtotal
              /\ InvoiceRowOf(p)'.discount_amount = InvoiceRowOf(p).discount_amount
              /\ InvoiceRowOf(p)'.tax_rate = InvoiceRowOf(p).tax_rate]_vars

----------------------------------------------------------------------------
(* Numbering beyond four digits *)

\* C27: numbering keeps working past the 9999th invoice of a month.  When
\* the highest sequence stored for the month, read as a number, is 9999 or
\* more, a creation is given that sequence plus 1, and, with no other
\* creation running, it is stored without a violation of the unique
\* constraint.
NumberingPastFourDigits ==
    [][/\ (cpc["r1"] = "idle" /\ cpc'["r1"] = "insert") =>
              LET stored == SequencesOf(cobj'["r1"].invoice_number.prefix)
              IN  (stored # {} /\ Highest(stored) >= LastFourDigit)
                      => ParseInt(cobj'["r1"].invoice_number.seq) = Highest(stored) + 1
       /\ (cpc["r1"] = "insert" /\ cpc'["r1"] = "idle") =>
              LET stored == SequencesOf(cobj["r1"].invoice_number.prefix)
              IN  (stored # {} /\ Highest(stored) >= LastFourDigit)
                      => (cresult'["r1"] = "created"
                          /\ Len(invoices') = Len(invoices) + 1)]_vars

----------------------------------------------------------------------------
(* Numbers of deleted invoices *)

\* C28: an invoice number that was assigned once is never assigned to a
\* different invoice later, over any sequence of creations and deletions
\* within a month: no invoice in the table holds the number of an invoice
\* that was deleted.
NumbersNeverReused ==
    \A i \in 1..Len(invoices) : invoices[i].invoice_number \notin history

====
